---- MODULE Spec2Model ----
(***************************************************************************)
(* Forecasting and dynamic-pricing pipeline of hotel-rate-optimizer.       *)
(*                                                                         *)
(* Number representation (floats are modelled by exact fixed point):       *)
(*   money      : integer count of half-cents (200 per currency unit);     *)
(*                inputs (adr, rate) lie on the cent grid, a median of two *)
(*                of them on the half-cent grid                            *)
(*   ratio      : integer count of 1/42000 (42000 = 1.0), so that the mean *)
(*                of 1..7 integer percentages is exact                     *)
(*   occupancy  : integer percent                                          *)
(*   NaN, None  : two integers outside every value range; every comparison *)
(*                with NaN is false, as in IEEE arithmetic                 *)
(*   table      : a function from the rows it holds to their number of     *)
(*                copies (a bag), so that a duplicate row is representable *)
(***************************************************************************)
EXTENDS Integers, Sequences, FiniteSets, TLC

VARIABLES
  px,                \* the last call of choose_price: its arguments and its result
  fd,                \* one call of forecast_demand: its arguments and its result
  fr,                \* a reservation history, with the results of compute_baseline and build_features on it
  reservations,      \* table reservations, unique on (date, room_type)
  competitor_rates,  \* table competitor_rates, unique on (date, competitor, room_type)
  forecasts,         \* table forecasts as committed, unique on (stay_date, room_type)
  writer,            \* per forecasts key, the request whose commit wrote it last
  lgb_available,     \* whether the regression step (import, fit, predict) succeeds
  req                \* per request POST /etl/run: position, snapshots, batch, result

priceVars == <<px>>

fdVars == <<fd, fr>>

dbVars == <<reservations, competitor_rates, forecasts, writer>>

pipeVars == <<reservations, competitor_rates, forecasts, writer, lgb_available, req>>

vars == <<px, fd, fr, reservations, competitor_rates, forecasts, writer, lgb_available, req>>

\* float('nan')
NaN == 0 - 1000000

\* Python None
None == 0 - 2000000

\* 1.0 in ratio units
SC == 42000

\* 1.0 currency unit in money units (half-cents)
MU == 200

IsNaN(x) == x = NaN

\* x < y on floats: false as soon as one side is NaN
FLt(x, y) == ~IsNaN(x) /\ ~IsNaN(y) /\ x < y

\* x <= y on floats: false as soon as one side is NaN
FLe(x, y) == ~IsNaN(x) /\ ~IsNaN(y) /\ x <= y

\* Python's max(a, b): returns b only when b > a
PyMax(a, b) == IF FLt(a, b) THEN b ELSE a

\* floor division for a positive divisor and any integer numerator
FloorDiv(n, d) == IF n >= 0 THEN n \div d ELSE 0 - ((0 - n + d - 1) \div d)

\* n/d rounded to the nearest integer, ties to the even integer (Python round)
RoundHalfEven(n, d) ==
  LET q == FloorDiv(n, d)
      r == n - q * d
  IN  IF 2 * r < d THEN q
      ELSE IF 2 * r > d THEN q + 1
      ELSE IF q % 2 = 0 THEN q ELSE q + 1

\* round(price, 2): v is a price in 1/100 half-cents, the result is in half-cents
Round2(v) == 2 * RoundHalfEven(v, 2 * 100)

\* n percent in ratio units
Pct(n) == n * (SC \div 100)

(***************************************************************************)
(* backend/pricing.py : choose_price                                       *)
(***************************************************************************)

\* fixed default baseline, 100.0
DEFAULT_BASELINE == 100 * MU

EffBaseline_nanonly(baseline) ==
  IF IsNaN(baseline) THEN DEFAULT_BASELINE ELSE baseline

\* pricing.py:12-13  if np.isnan(baseline) or baseline <= 0: baseline = 100.0
EffBaseline(baseline) ==
  IF IsNaN(baseline) \/ FLe(baseline, 0) THEN DEFAULT_BASELINE ELSE baseline

\* pricing.py:14  comp = comp_median if comp_median is not None and comp_median > 0 else baseline
EffComp(b, comp_median) ==
  IF comp_median # None /\ FLt(0, comp_median) THEN comp_median ELSE b

TierPrice_incl(b, proj_occ, comp) ==
  IF FLe(proj_occ, Pct(50)) THEN PyMax(b * 90, comp * 95)
  ELSE IF FLe(proj_occ, Pct(70)) THEN PyMax(b * 100, comp * 100)
  ELSE IF FLe(proj_occ, Pct(85)) THEN PyMax(b * 108, comp * 105)
  ELSE PyMax(b * 115, comp * 110)

TierPrice_ge(b, proj_occ, comp) ==
  IF FLe(Pct(85), proj_occ) THEN PyMax(b * 115, comp * 110)
  ELSE IF FLe(Pct(70), proj_occ) THEN PyMax(b * 108, comp * 105)
  ELSE IF FLe(Pct(50), proj_occ) THEN PyMax(b * 100, comp * 100)
  ELSE PyMax(b * 90, comp * 95)

TierPrice_dip(b, proj_occ, comp) ==
  IF FLt(proj_occ, Pct(50)) THEN PyMax(b * 90, comp * 95)
  ELSE IF FLt(proj_occ, Pct(70)) THEN PyMax(b * 100, comp * 100)
  ELSE IF FLt(proj_occ, Pct(85)) THEN PyMax(b * 108, comp * 95)
  ELSE PyMax(b * 115, comp * 110)

\* pricing.py:15-22  the if/elif chain; the result is in 1/100 half-cents
TierPrice(b, proj_occ, comp) ==
  IF FLt(proj_occ, Pct(50)) THEN PyMax(b * 90, comp * 95)
  ELSE IF FLt(proj_occ, Pct(70)) THEN PyMax(b * 100, comp * 100)
  ELSE IF FLt(proj_occ, Pct(85)) THEN PyMax(b * 108, comp * 105)
  ELSE PyMax(b * 115, comp * 110)

\* pricing.py:11-23
choose_price(baseline, proj_occ, comp_median) ==
  LET b    == EffBaseline(baseline)
      comp == EffComp(b, comp_median)
  IN  Round2(TierPrice(b, proj_occ, comp))

(***************************************************************************)
(* ml/model.py : forecast_demand                                           *)
(* A frame (DataFrame) is a sequence of rows (records); a column of it is  *)
(* the sequence of the rows' values.                                       *)
(***************************************************************************)

RECURSIVE SumSeq(_)
SumSeq(s) == IF s = <<>> THEN 0 ELSE Head(s) + SumSeq(Tail(s))

MinOf(a, b) == IF a <= b THEN a ELSE b

MaxOf(a, b) == IF a >= b THEN a ELSE b

\* the non-NaN values of s[lo..hi]
WindowVals(s, lo, hi) ==
  SelectSeq(SubSeq(s, lo, hi), LAMBDA v : ~IsNaN(v))

\* Series.rolling(w, min_periods=mp).mean(): at position k the mean of the
\* non-NaN values among the last w, NaN when fewer than mp of them exist
RollingMean(s, w, mp) ==
  [k \in 1..Len(s) |->
     LET vals == WindowVals(s, MaxOf(1, k - w + 1), k)
     IN  IF Len(vals) >= mp THEN SumSeq(vals) \div Len(vals) ELSE NaN]

\* Series.bfill(): a NaN takes the next non-NaN value after it, if any
BFill(s) ==
  [k \in 1..Len(s) |->
     LET later == {j \in k..Len(s) : ~IsNaN(s[j])}
     IN  IF later = {} THEN NaN
         ELSE s[CHOOSE j \in later : \A i \in later : j <= i]]

\* Series.clip(lo, hi): NaN is kept
Clip(v, lo, hi) == IF IsNaN(v) THEN NaN ELSE MaxOf(lo, MinOf(hi, v))

\* positions of the rows of room type rt, in frame order
GroupIdx(df, rt) ==
  SelectSeq([i \in 1..Len(df) |-> i], LAMBDA i : df[i].room_type = rt)

\* position of row i within its own group
PosInGroup(df, i) ==
  Cardinality({j \in 1..i : df[j].room_type = df[i].room_type})

FallbackWindow == 7

FallbackMinPeriods == 2

FallbackForecast_nobfill(train_df) ==
  [i \in 1..Len(train_df) |->
     LET idx == GroupIdx(train_df, train_df[i].room_type)
         s   == [k \in 1..Len(idx) |-> train_df[idx[k]].target]
         t   == RollingMean(s, FallbackWindow, FallbackMinPeriods)
     IN  Clip(t[PosInGroup(train_df, i)], 0, SC)]

\* model.py:79-83  groupby("room_type")["target"].transform(
\*   lambda s: s.rolling(7, min_periods=2).mean().bfill()).clip(0, 1)
FallbackForecast(train_df) ==
  [i \in 1..Len(train_df) |->
     LET idx == GroupIdx(train_df, train_df[i].room_type)
         s   == [k \in 1..Len(idx) |-> train_df[idx[k]].target]
         t   == BFill(RollingMean(s, FallbackWindow, FallbackMinPeriods))
     IN  Clip(t[PosInGroup(train_df, i)], 0, SC)]

\* model.py:63-76  the in-sample prediction of the fitted regressor, clipped.
\* The regressor is a library; on the bounded frames used here (fewer rows
\* than twice min_child_samples) no split is possible, every tree is a single
\* leaf and the prediction of every row is the mean target.
RegressorForecast(train_df) ==
  LET y == [i \in 1..Len(train_df) |-> train_df[i].target]
      m == SumSeq(y) \div Len(y)
  IN  [i \in 1..Len(train_df) |-> Clip(m, 0, SC)]

\* model.py:57-83  lgb_ok: the import, the fit and the prediction all succeed
forecast_demand(train_df, lgb_ok) ==
  IF lgb_ok /\ Len(train_df) > 0
  THEN RegressorForecast(train_df)
  ELSE FallbackForecast(train_df)

(***************************************************************************)
(* Tables and frames                                                       *)
(*   a date is a day number                                                *)
(*   occupancy is kept in 1/420 percent, so that occupancy / 100 (the      *)
(*   target, a ratio) is the same integer in ratio units                   *)
(***************************************************************************)

\* room types, in lexicographic order
RoomTypeOrder == <<"King", "Queen">>

RoomTypes == {RoomTypeOrder[i] : i \in 1..Len(RoomTypeOrder)}

RtRank(rt) == CHOOSE i \in 1..Len(RoomTypeOrder) : RoomTypeOrder[i] = rt

\* the second components of a set of <<key, value>> pairs, by ascending key
RECURSIVE SortPairs(_)
SortPairs(S) ==
  IF S = {} THEN <<>>
  ELSE LET m == CHOOSE x \in S : \A y \in S : x[1] <= y[1]
       IN  <<m[2]>> \o SortPairs(S \ {m})

\* the values of a sequence in ascending order
SortVals(s) ==
  SortPairs({<<s[i] * (Len(s) + 1) + i, s[i]>> : i \in 1..Len(s)})

\* median of a non-empty sequence of values on the cent grid
Median(s) ==
  LET t == SortVals(s)
      n == Len(t)
  IN  IF n % 2 = 1 THEN t[(n + 1) \div 2]
      ELSE (t[n \div 2] + t[n \div 2 + 1]) \div 2

\* mean of the non-NaN values of a sequence, NaN when there is none
MeanSkipNaN(s) ==
  LET vals == SelectSeq(s, LAMBDA v : ~IsNaN(v))
  IN  IF Len(vals) = 0 THEN NaN ELSE SumSeq(vals) \div Len(vals)

\* model.py:37  (rooms_sold / rooms_available * 100.0).clip(lower=0, upper=100)
Occupancy(rooms_sold, rooms_available) ==
  Clip((rooms_sold * 100 * 420) \div rooms_available, 0, SC)

\* model.py:27-38  reservations ORDER BY date, room_type, with occupancy
\* derived and date renamed to stay_date
ReadReservations(tbl) ==
  LET copies == UNION {{<<r, c>> : c \in 1..tbl[r]} : r \in DOMAIN tbl}
      rows   == SortPairs({ <<x[1].date * (Len(RoomTypeOrder) + 1) + RtRank(x[1].room_type), x>>
                            : x \in copies })
  IN  [n \in 1..Len(rows) |->
         LET r == rows[n][1]
         IN  [stay_date |-> r.date, room_type |-> r.room_type,
              rooms_sold |-> r.rooms_sold, rooms_available |-> r.rooms_available,
              adr |-> r.adr,
              occupancy |-> Occupancy(r.rooms_sold, r.rooms_available)]]

\* model.py:41-52  competitor_rates, date renamed to stay_date: the set of
\* its rows (row order is not fixed by the query and not used by the pipeline)
ReadCompetitors(tbl) ==
  { [stay_date |-> c.date, competitor |-> c.competitor,
     room_type |-> c.room_type, rate |-> c.rate] : c \in DOMAIN tbl }

CompMedianOf_rt(comp, d, rt) ==
  LET grp == {c \in comp : c.room_type = rt}
  IN  IF grp = {} THEN None
      ELSE LET rows == SortPairs({<<c.rate, c>> : c \in grp})
           IN  Median([i \in 1..Len(rows) |-> rows[i].rate])

\* groupby(['stay_date','room_type'])['rate'].median() as a lookup:
\* None when the group does not exist
CompMedianOf(comp, d, rt) ==
  LET grp == {c \in comp : c.stay_date = d /\ c.room_type = rt}
  IN  IF grp = {} THEN None
      ELSE LET rows == SortPairs({<<c.rate, c>> : c \in grp})
           IN  Median([i \in 1..Len(rows) |-> rows[i].rate])

(***************************************************************************)
(* ml/features.py : build_features                                         *)
(***************************************************************************)

\* dt.dayofweek (Monday = 0); day number 0 is a Monday
DayOfWeek(d) == d % 7

\* Friday and Saturday
WeekendDays == {4, 5}

SortByRoomTypeDate_asis(df) == df

\* features.py:9  sort_values(['room_type','stay_date'])
SortByRoomTypeDate(df) ==
  SortPairs({ <<(RtRank(df[i].room_type) * 1000 + df[i].stay_date) * (Len(df) + 1) + i,
                df[i]>> : i \in 1..Len(df) })

\* features.py:4-23  competitors is a set of competitor rows, empty for None
build_features(res_df, competitors) ==
  LET df  == SortByRoomTypeDate(res_df)
      occ == [i \in 1..Len(df) |->
                LET idx == GroupIdx(df, df[i].room_type)
                IN  [k \in 1..Len(idx) |-> df[idx[k]].occupancy]]
  IN  [i \in 1..Len(df) |->
         LET k == PosInGroup(df, i)
         IN  [stay_date       |-> df[i].stay_date,
              room_type       |-> df[i].room_type,
              rooms_sold      |-> df[i].rooms_sold,
              rooms_available |-> df[i].rooms_available,
              adr             |-> df[i].adr,
              occupancy       |-> df[i].occupancy,
              dow             |-> DayOfWeek(df[i].stay_date),
              lag_occ_1       |-> IF k = 1 THEN NaN ELSE occ[i][k - 1],
              roll_occ_7      |-> RollingMean(occ[i], 7, 2)[k],
              is_weekend      |-> IF DayOfWeek(df[i].stay_date) \in WeekendDays THEN 1 ELSE 0,
              comp_median     |->
                IF competitors = {} THEN None
                ELSE LET m == CompMedianOf(competitors, df[i].stay_date, df[i].room_type)
                     IN  IF m = None THEN NaN ELSE m,
              target          |-> df[i].occupancy]]

(***************************************************************************)
(* backend/pricing.py : compute_baseline                                   *)
(***************************************************************************)

BaselineWindow == 14

BaselineMinPeriods == 3

RollingMedian_expanding(s, w, mp) ==
  [k \in 1..Len(s) |->
     LET vals == WindowVals(s, 1, k)
     IN  IF Len(vals) >= mp THEN Median(vals) ELSE NaN]

\* Series.rolling(w, min_periods=mp).median()
RollingMedian(s, w, mp) ==
  [k \in 1..Len(s) |->
     LET vals == WindowVals(s, MaxOf(1, k - w + 1), k)
     IN  IF Len(vals) >= mp THEN Median(vals) ELSE NaN]

\* GroupBy 'last': the last non-NaN value, NaN when there is none
LastValid(s) ==
  LET ok == {k \in 1..Len(s) : ~IsNaN(s[k])}
  IN  IF ok = {} THEN NaN ELSE s[CHOOSE k \in ok : \A j \in ok : j <= k]

\* Series.fillna(other): other is aligned on the index labels of the series
\* and a NaN is filled only where other has the very same label
FillNaAligned(series, other) ==
  [i \in 1..Len(series) |->
     IF ~IsNaN(series[i].value) THEN series[i]
     ELSE LET hit == {j \in 1..Len(other) : other[j].label = series[i].label}
          IN  IF hit = {} THEN series[i]
              ELSE [series[i] EXCEPT !.value = other[CHOOSE j \in hit : TRUE].value]]

\* pricing.py:6  groupby('room_type')['adr'].rolling(14, min_periods=3).median()
\*               .groupby(level=0).transform('last')
\* one entry per reservation row, labelled (room_type, row label), grouped by
\* room type in sorted order
TrailingBaseline(res_df) ==
  LET ord == SortPairs({ <<RtRank(res_df[i].room_type) * (Len(res_df) + 1) + i, i>>
                         : i \in 1..Len(res_df) })
  IN  [n \in 1..Len(ord) |->
         LET i   == ord[n]
             idx == GroupIdx(res_df, res_df[i].room_type)
             adr == [k \in 1..Len(idx) |-> res_df[idx[k]].adr]
         IN  [label |-> <<res_df[i].room_type, i - 1>>,
              value |-> LastValid(RollingMedian(adr, BaselineWindow, BaselineMinPeriods))]]

\* pricing.py:8  groupby('room_type')['adr'].transform('median'): one entry
\* per reservation row, labelled by the row label alone
OverallMedian(res_df) ==
  [i \in 1..Len(res_df) |->
     LET idx == GroupIdx(res_df, res_df[i].room_type)
     IN  [label |-> <<i - 1>>,
          value |-> Median([k \in 1..Len(idx) |-> res_df[idx[k]].adr])]]

\* pricing.py:4-9
compute_baseline(res_df) ==
  FillNaAligned(TrailingBaseline(res_df), OverallMedian(res_df))

(***************************************************************************)
(* ml/model.py : main, the forecast batch of one run                       *)
(***************************************************************************)

\* length of the horizon, in days
HORIZON_DAYS == 14

\* round(pred, 4): the result counts 1/10000
Round4(pred) == IF IsNaN(pred) THEN NaN ELSE RoundHalfEven(pred * 10000, SC)

\* model.py:99  feat_df["pred"] = forecast_demand(feat_df, feat_cols)
WithPred(feat, lgb_ok) ==
  LET pred == forecast_demand(feat, lgb_ok)
  IN  [i \in 1..Len(feat) |-> feat[i] @@ [pred |-> pred[i]]]

RECURSIVE Flatten(_)
Flatten(ss) == IF ss = <<>> THEN <<>> ELSE Head(ss) \o Flatten(Tail(ss))

\* model.py:102-110  feat_df.merge(baselines.rename("baseline").reset_index(),
\* on="room_type", how="left"): each feature row is paired with every
\* baseline entry of its room type (one per reservation row), in order
MergeBaseline(feat, baselines) ==
  Flatten([i \in 1..Len(feat) |->
     LET hit == SelectSeq(baselines, LAMBDA b : b.label[1] = feat[i].room_type)
     IN  IF Len(hit) = 0
         THEN <<feat[i] @@ [level_1 |-> NaN, baseline |-> NaN]>>
         ELSE [j \in 1..Len(hit) |->
                 feat[i] @@ [level_1 |-> hit[j].label[2], baseline |-> hit[j].value]]])

LastHist_min(res) ==
  CHOOSE d \in {res[i].stay_date : i \in 1..Len(res)} :
    \A i \in 1..Len(res) : d <= res[i].stay_date

\* model.py:113  pd.to_datetime(res["stay_date"]).max()
LastHist(res) ==
  CHOOSE d \in {res[i].stay_date : i \in 1..Len(res)} :
    \A i \in 1..Len(res) : res[i].stay_date <= d

Horizon_short(res) == [n \in 1..(HORIZON_DAYS - 1) |-> LastHist(res) + n]

\* model.py:114-115  the 14 days after the last history date
Horizon(res) == [n \in 1..HORIZON_DAYS |-> LastHist(res) + n]

\* model.py:119  sorted(res["room_type"].unique())
RoomTypesOf(res) ==
  SelectSeq(RoomTypeOrder, LAMBDA rt : \E i \in 1..Len(res) : res[i].room_type = rt)

AsOfRow_first(hist, d) ==
  LET upto == SelectSeq(hist, LAMBDA f : f.stay_date <= d)
  IN  IF Len(upto) = 0 THEN <<>> ELSE <<upto[1]>>

\* model.py:137  hist[hist["stay_date"] <= d].tail(1): the last of the rows
\* dated d or earlier, as a frame of at most one row
AsOfRow(hist, d) ==
  LET upto == SelectSeq(hist, LAMBDA f : f.stay_date <= d)
  IN  IF Len(upto) = 0 THEN <<>> ELSE <<upto[Len(upto)]>>

\* model.py:136-158  day d, room type rt: the row the as-of lookup selects
\* (asof is its stay_date, None when the lookup finds no row) and the
\* arguments given to choose_price
PriceArgs(d, rt, feat_df, res, comp) ==
  LET hist == SelectSeq(feat_df, LAMBDA f : f.room_type = rt)
      last == AsOfRow(hist, d)
      adrs == LET rr == SelectSeq(res, LAMBDA x : x.room_type = rt)
              IN  [k \in 1..Len(rr) |-> rr[k].adr]
      last_occ == IF Len(hist) > 0
                  THEN MeanSkipNaN([k \in 1..Len(hist) |-> hist[k].occupancy])
                  ELSE Pct(50)
      roll_occ == IF Len(hist) > 0
                  THEN MeanSkipNaN([k \in 1..Len(hist) |-> hist[k].roll_occ_7])
                  ELSE Pct(50)
      pred == IF Len(last) = 0
              THEN IF IsNaN(last_occ) \/ IsNaN(roll_occ) THEN NaN
                   ELSE (4 * last_occ + 6 * roll_occ) \div 10
              ELSE last[1].pred
      baseline == IF Len(last) = 0
                  THEN IF Len(adrs) = 0 THEN NaN ELSE Median(adrs)
                  ELSE last[1].baseline
      comp_median == IF comp # {} THEN CompMedianOf(comp, d, rt) ELSE None
  IN  [stay_date   |-> d,
       room_type   |-> rt,
       asof        |-> IF Len(last) = 0 THEN None ELSE last[1].stay_date,
       baseline    |-> baseline,
       proj_occ    |-> pred,
       comp_median |-> IF comp_median = None \/ IsNaN(comp_median)
                       THEN None ELSE comp_median]

\* model.py:153-168, 186-192  the record appended for one call of choose_price,
\* as the INSERT statement binds it (an undefined competitor_rate is bound as None)
FutureRow(a) ==
  [stay_date       |-> a.stay_date,
   room_type       |-> a.room_type,
   demand_forecast |-> Round4(a.proj_occ),
   competitor_rate |-> a.comp_median,
   recommended_adr |-> choose_price(a.baseline, a.proj_occ, a.comp_median)]

\* model.py:96-110  feat_df as the loop reads it: features, pred, baseline
FeatFrame(res, comp, lgb_ok) ==
  MergeBaseline(WithPred(build_features(res, comp), lgb_ok), compute_baseline(res))

\* model.py:132-158  the calls of choose_price of a run, in loop order
PriceCalls(feat_df, res, comp) ==
  LET horizon    == Horizon(res)
      room_types == RoomTypesOf(res)
      R          == Len(room_types)
  IN  [n \in 1..(Len(horizon) * R) |->
         PriceArgs(horizon[(n - 1) \div R + 1], room_types[((n - 1) % R) + 1],
                   feat_df, res, comp)]

\* model.py:160-170  the frame fut built from the calls
FutureRows(calls) == [n \in 1..Len(calls) |-> FutureRow(calls[n])]

(***************************************************************************)
(* The stores and the requests                                             *)
(***************************************************************************)

EmptyTable == <<>>

\* the two requests POST /etl/run
Requests == {"r1", "r2"}

\* exit status of a script that has not exited
NotExited == 0 - 1

IdleRequest ==
  [pc |-> "idle", after |-> {}, res_csv |-> <<>>, res |-> <<>>, comp |-> {},
   fut |-> <<>>, i |-> 0,
   etl_exit |-> NotExited, ml_exit |-> NotExited, fault |-> "none",
   response |-> "none"]

\* a fresh database, no request received
PipeIdle ==
  /\ reservations = EmptyTable
  /\ competitor_rates = EmptyTable
  /\ forecasts = EmptyTable
  /\ writer = <<>>
  /\ lgb_available = FALSE
  /\ req = [r \in Requests |-> IdleRequest]

ResKey(row) == <<row.date, row.room_type>>

CompKey(row) == <<row.date, row.competitor, row.room_type>>

FcKey(row) == <<row.stay_date, row.room_type>>

Copies(table, row) == IF row \in DOMAIN table THEN table[row] ELSE 0

\* number of rows of the table that have key k under Key
RECURSIVE SumCopies(_, _)
SumCopies(table, rows) ==
  IF rows = {} THEN 0
  ELSE LET x == CHOOSE y \in rows : TRUE
       IN  table[x] + SumCopies(table, rows \ {x})

\* the table with its rows hit replaced by n copies of row
Replace(table, hit, row, n) ==
  [x \in (DOMAIN table \ hit) \cup {row} |-> IF x = row THEN n ELSE table[x]]

UpsertForecast_insert(table, row) ==
  Replace(table, {row}, row, Copies(table, row) + 1)

UpsertForecast_keep(table, row) ==
  IF \E x \in DOMAIN table : FcKey(x) = FcKey(row) THEN table
  ELSE Replace(table, {}, row, 1)

UpsertForecast_rtkey(table, row) ==
  Replace(table, {x \in DOMAIN table : x.room_type = row.room_type}, row, 1)

\* model.py:176-185  INSERT INTO forecasts ... ON CONFLICT (stay_date, room_type)
\* DO UPDATE SET demand_forecast, competitor_rate, recommended_adr = EXCLUDED.*
\* a row with the same key takes the new values, else the row is added
UpsertForecast(table, row) ==
  LET hit == {x \in DOMAIN table : FcKey(x) = FcKey(row)}
  IN  Replace(table, hit, row, IF hit = {} THEN 1 ELSE SumCopies(table, hit))

UpsertReservation_nothing(table, row) ==
  IF \E x \in DOMAIN table : ResKey(x) = ResKey(row) THEN table
  ELSE Replace(table, {}, row, 1)

\* etl.py:36-44  INSERT INTO reservations ... ON CONFLICT (date, room_type)
\* DO UPDATE SET rooms_sold, rooms_available, adr, revenue = EXCLUDED.*
UpsertReservation(table, row) ==
  LET hit == {x \in DOMAIN table : ResKey(x) = ResKey(row)}
  IN  Replace(table, hit, row, IF hit = {} THEN 1 ELSE SumCopies(table, hit))

\* etl.py:71-76  INSERT INTO competitor_rates ... ON CONFLICT (date, competitor,
\* room_type) DO UPDATE SET rate = EXCLUDED.rate
UpsertCompetitor(table, row) ==
  LET hit == {x \in DOMAIN table : CompKey(x) = CompKey(row)}
  IN  Replace(table, hit, row, IF hit = {} THEN 1 ELSE SumCopies(table, hit))

\* model.py:174-193  the statements of the loop, applied in order
RECURSIVE UpsertForecasts(_, _)
UpsertForecasts(table, rows) ==
  IF rows = <<>> THEN table
  ELSE UpsertForecasts(UpsertForecast(table, Head(rows)), Tail(rows))

\* etl.py:35-53
RECURSIVE UpsertReservations(_, _)
UpsertReservations(table, rows) ==
  IF rows = <<>> THEN table
  ELSE UpsertReservations(UpsertReservation(table, Head(rows)), Tail(rows))

\* etl.py:70-83
RECURSIVE UpsertCompetitors(_, _)
UpsertCompetitors(table, rows) ==
  IF rows = <<>> THEN table
  ELSE UpsertCompetitors(UpsertCompetitor(table, Head(rows)), Tail(rows))

VisibleBeforeCommit_autocommit(table, row) == UpsertForecast(table, row)

\* model.py:173  with eng.begin() as conn: what other sessions see of the
\* table after a statement of the still open transaction has run
VisibleBeforeCommit(table, row) == table

(***************************************************************************)
(* Calls of choose_price on bounded inputs                                 *)
(***************************************************************************)

\* baselines tried: undefined, negative, zero, 0.05, 100.00, 100.005, 150.00
Baselines == {NaN, 0 - 5000, 0, 10, 100 * MU, 100 * MU + 1, 150 * MU}

\* occupancies tried: the tier edges, the values next to them, 0, 0.30, 1, undefined
ProjOccs == {0, Pct(30), Pct(50) - 1, Pct(50), Pct(70) - 1, Pct(70),
             Pct(85) - 1, Pct(85), SC, NaN}

\* competitor medians tried: absent, negative, zero, 95.00, 120.00, 200.00
CompMedians == {None, 0 - 100, 0, 95 * MU, 120 * MU, 200 * MU}

NoCall == [called |-> FALSE]

\* rows of the training frames tried
TrainRows ==
  { [room_type |-> "King",  target |-> Pct(40)],
    [room_type |-> "King",  target |-> Pct(90)],
    [room_type |-> "Queen", target |-> Pct(100)] }

\* longest training frame tried
MaxTrain == 8

NoForecast == [called |-> FALSE]

NoFrame == [loaded |-> FALSE]

PriceIdle == px = NoCall

FdIdle == fd = NoForecast /\ fr = NoFrame

PriceInit ==
  /\ px = NoCall
  /\ FdIdle
  /\ PipeIdle

\* one call choose_price(baseline, proj_occ, comp_median); px records the last call
CallChoosePrice ==
  \E b \in Baselines, p \in ProjOccs, c \in CompMedians :
    px' = [called |-> TRUE, baseline |-> b, proj_occ |-> p, comp_median |-> c,
           price |-> choose_price(b, p, c)]
    /\ UNCHANGED <<fdVars, pipeVars>>

PriceNext == CallChoosePrice

SpecPrice == PriceInit /\ [][PriceNext]_vars

(***************************************************************************)
(* One call of forecast_demand on a bounded training frame                 *)
(***************************************************************************)

FdInit ==
  /\ \E n \in 0..MaxTrain, lgb_ok \in BOOLEAN :
       \E df \in [1..n -> TrainRows] :
         fd = [called |-> FALSE, train_df |-> df, lgb_ok |-> lgb_ok, pred |-> <<>>]
  /\ fr = NoFrame
  /\ PriceIdle
  /\ PipeIdle

\* pred = forecast_demand(train_df, feat_cols)
CallForecastDemand ==
  /\ ~fd.called
  /\ fd' = [fd EXCEPT !.called = TRUE,
                      !.pred = forecast_demand(fd.train_df, fd.lgb_ok)]
  /\ UNCHANGED <<fr, priceVars, pipeVars>>

FdNext == CallForecastDemand

SpecFd == FdInit /\ [][FdNext]_vars

(***************************************************************************)
(* compute_baseline, build_features and the batch computation of main,    *)
(* each called once on a bounded reservation history                       *)
(***************************************************************************)

\* longest King history tried, in nights
MaxHist == 16

\* most Queen nights tried
MaxQueen == 3

\* longest King history a batch is computed over, in nights
MaxBatch == 5

\* a line of reservations_30d.csv, of a room type with 10 rooms
CsvRow(d, rt, sold, adr) ==
  [date |-> d, room_type |-> rt, rooms_sold |-> sold, rooms_available |-> 10,
   adr |-> adr, revenue |-> sold * adr]

\* the King night of day k: occupancy and adr rise with k, fall with k, or swing
KingNight(k, pat) ==
  CASE pat = "rising"  -> CsvRow(k, "King", k % 13, (100 + k) * MU)
    [] pat = "falling" -> CsvRow(k, "King", (40 - k) % 13, (200 - 3 * k) * MU)
    [] pat = "swing"   -> CsvRow(k, "King", IF k % 2 = 1 THEN 4 ELSE 9,
                                 IF k % 3 = 0 THEN 150 * MU ELSE 100 * MU)

\* the j-th Queen night, on day 2j, overbooked
QueenNight(j) == CsvRow(2 * j, "Queen", 12, (80 + 10 * j) * MU)

\* the table reservations holding n King nights and m Queen nights
HistTable(n, m, pat) ==
  [row \in {KingNight(k, pat) : k \in 1..n} \cup {QueenNight(j) : j \in 1..m} |-> 1]

\* the rows of a frame in another order
Reorder(df, order) ==
  CASE order = "db"       -> df
    [] order = "reversed" -> [i \in 1..Len(df) |-> df[Len(df) + 1 - i]]
    [] order = "rotated"  -> [i \in 1..Len(df) |-> df[((i + (Len(df) \div 2) - 1) % Len(df)) + 1]]

\* res as read_tables returns it (in the order of the query), the order in
\* which build_features is given its rows, and nothing called yet
Loaded(n, m, pat, order) ==
  [loaded |-> TRUE, res |-> ReadReservations(HistTable(n, m, pat)),
   order |-> order,
   bl_called |-> FALSE, baselines |-> <<>>,
   bf_called |-> FALSE, feat |-> <<>>,
   run_called |-> FALSE, comp |-> {}, lgb_ok |-> FALSE,
   feat_df |-> <<>>, calls |-> <<>>, fut |-> <<>>]

FrameInit ==
  /\ \E n \in 0..MaxHist, m \in 0..MaxQueen, pat \in {"rising", "falling", "swing"},
        order \in {"db", "reversed", "rotated"} :
       fr = Loaded(n, m, pat, order)
  /\ fd = NoForecast
  /\ PriceIdle
  /\ PipeIdle

\* baselines = compute_baseline(res)
CallComputeBaseline ==
  /\ fr.loaded /\ ~fr.bl_called
  /\ fr' = [fr EXCEPT !.bl_called = TRUE, !.baselines = compute_baseline(fr.res)]
  /\ UNCHANGED <<fd, priceVars, pipeVars>>

\* feat_df, feat_cols = build_features(reservations, None)
CallBuildFeatures ==
  /\ fr.loaded /\ ~fr.bf_called
  /\ fr' = [fr EXCEPT !.bf_called = TRUE,
                      !.feat = build_features(Reorder(fr.res, fr.order), {})]
  /\ UNCHANGED <<fd, priceVars, pipeVars>>

CompRow(d, c, rt, rate) == [date |-> d, competitor |-> c, room_type |-> rt, rate |-> rate]

\* files competitors_30d.csv: none, one competitor, two competitors for the
\* King room on day d and one for the Queen room, plus a rate on a history date
CompCsvs(d) ==
  { <<>>,
    <<CompRow(d, "c1", "King", 120 * MU)>>,
    <<CompRow(1, "c1", "King", 120 * MU), CompRow(d, "c1", "King", 120 * MU),
      CompRow(d, "c2", "King", 95 * MU), CompRow(d, "c1", "Queen", 250 * MU)>> }

\* the competitor frames read_tables may return next to the history res: no
\* rate, or the rates of one of the files with its future rates on the first
\* day of the horizon
CompFrames(res) ==
  LET d == IF Len(res) = 0 THEN 1 ELSE LastHist(res) + 1
  IN  {ReadCompetitors(UpsertCompetitors(EmptyTable, cc)) : cc \in CompCsvs(d)}

\* model.py:90-170  main from the early return on an empty history to the
\* frame fut, on the history res, a competitor frame and either forecaster path
RunBatch ==
  /\ fr.loaded /\ ~fr.run_called
  /\ \E comp \in CompFrames(fr.res), lgb_ok \in BOOLEAN :
       fr' = IF Len(fr.res) = 0
             THEN [fr EXCEPT !.run_called = TRUE, !.comp = comp, !.lgb_ok = lgb_ok]
             ELSE LET feat_df == FeatFrame(fr.res, comp, lgb_ok)
                      calls   == PriceCalls(feat_df, fr.res, comp)
                  IN  [fr EXCEPT !.run_called = TRUE, !.comp = comp, !.lgb_ok = lgb_ok,
                                 !.feat_df = feat_df, !.calls = calls,
                                 !.fut = FutureRows(calls)]
  /\ UNCHANGED <<fd, priceVars, pipeVars>>

FrameNext == CallComputeBaseline \/ CallBuildFeatures

SpecFrame == FrameInit /\ [][FrameNext]_vars

BatchInit ==
  /\ \E n \in 0..MaxBatch, m \in 0..MaxQueen, pat \in {"rising", "falling", "swing"} :
       fr = Loaded(n, m, pat, "db")
  /\ fd = NoForecast
  /\ PriceIdle
  /\ PipeIdle

BatchNext == RunBatch

SpecBatch == BatchInit /\ [][BatchNext]_vars

(***************************************************************************)
(* POST /etl/run : etl/etl.py, then ml/model.py, as two subprocesses        *)
(***************************************************************************)

EmptyHistoryExit_raise == 1

\* model.py:91-93  exit status of model.py when the history is empty: the
\* script prints a message and returns
EmptyHistoryExit == 0

RunPyOk_always(returncode) == TRUE

\* main.py:289-301  run_py: TRUE when the script's exit status lets the
\* handler go on, FALSE when it raises HTTPException(500)
RunPyOk(returncode) == returncode = 0

Set(r, rec) == [req EXCEPT ![r] = rec]

\* main.py:303, etl.py:108-115  etl.py commits its one transaction and exits 0
EtlOk(r, resCsvs, compCsvs) ==
  /\ req[r].pc = "idle"
  /\ \E rc \in resCsvs, cc \in compCsvs :
       /\ reservations' = UpsertReservations(reservations, rc)
       /\ competitor_rates' = UpsertCompetitors(competitor_rates, cc)
       /\ req' = Set(r, [req[r] EXCEPT !.pc = "ml_res", !.etl_exit = 0, !.res_csv = rc,
                                       !.after = {o \in Requests : req[o].pc = "done"}])
  /\ UNCHANGED <<forecasts, writer, lgb_available, priceVars, fdVars>>

\* main.py:297-299  etl.py raises (its transaction is rolled back) and exits
\* non-zero: the handler answers 500 and never starts model.py
EtlFail(r) ==
  /\ req[r].pc = "idle"
  /\ req' = Set(r, [req[r] EXCEPT !.pc = IF RunPyOk(1) THEN "ml_res" ELSE "done",
                    !.etl_exit = 1, !.fault = "etl",
                    !.after = {o \in Requests : req[o].pc = "done"},
                    !.response = IF RunPyOk(1) THEN "none" ELSE "500"])
  /\ UNCHANGED <<dbVars, lgb_available, priceVars, fdVars>>

\* model.py:27-38  read_tables, first query
MlReadRes(r) ==
  /\ req[r].pc = "ml_res"
  /\ req' = Set(r, [req[r] EXCEPT !.pc = "ml_comp",
                                  !.res = ReadReservations(reservations)])
  /\ UNCHANGED <<dbVars, lgb_available, priceVars, fdVars>>

\* what the handler answers once model.py has exited
MlExited(rec, returncode) ==
  [rec EXCEPT !.pc = "done", !.ml_exit = returncode,
              !.response = IF RunPyOk(returncode) THEN "ETL+ML completed" ELSE "500"]

\* model.py:41-54, 90-170  read_tables, second query (an error of it leaves
\* an empty frame), then either the early return on an empty history or the
\* computation of the batch fut
MlReadComp(r) ==
  /\ req[r].pc = "ml_comp"
  /\ \E comp \in {ReadCompetitors(competitor_rates), {}} :
       req' = Set(r, IF Len(req[r].res) = 0
                     THEN MlExited([req[r] EXCEPT !.comp = comp], EmptyHistoryExit)
                     ELSE LET feat_df == FeatFrame(req[r].res, comp, lgb_available)
                              calls   == PriceCalls(feat_df, req[r].res, comp)
                          IN  [req[r] EXCEPT !.pc = "write", !.comp = comp, !.i = 0,
                                             !.fut = FutureRows(calls)])
  /\ UNCHANGED <<dbVars, lgb_available, priceVars, fdVars>>

\* keys whose rows request r has written in its open transaction
LockedBy(r) ==
  IF req[r].pc = "write" THEN {FcKey(req[r].fut[k]) : k \in 1..req[r].i} ELSE {}

\* model.py:174-193  one statement of the loop, inside the transaction; it
\* waits while another open transaction has written the same key
MlUpsert(r) ==
  /\ req[r].pc = "write"
  /\ req[r].i < Len(req[r].fut)
  /\ LET row == req[r].fut[req[r].i + 1]
     IN  /\ \A o \in Requests \ {r} : FcKey(row) \notin LockedBy(o)
         /\ forecasts' = VisibleBeforeCommit(forecasts, row)
  /\ req' = Set(r, [req[r] EXCEPT !.i = @ + 1])
  /\ UNCHANGED <<reservations, competitor_rates, writer, lgb_available, priceVars, fdVars>>

\* model.py:173  leaving the with block commits: every statement takes effect
MlCommit(r) ==
  /\ req[r].pc = "write"
  /\ req[r].i = Len(req[r].fut)
  /\ forecasts' = UpsertForecasts(forecasts, req[r].fut)
  /\ writer' = [k \in {FcKey(req[r].fut[n]) : n \in 1..Len(req[r].fut)} |-> r] @@ writer
  /\ req' = Set(r, MlExited(req[r], 0))
  /\ UNCHANGED <<reservations, competitor_rates, lgb_available, priceVars, fdVars>>

\* model.py raises (lost connection, failed statement): an open transaction
\* is rolled back, the script exits non-zero
MlFail(r) ==
  /\ req[r].pc \in {"ml_res", "ml_comp", "write"}
  /\ req' = Set(r, MlExited([req[r] EXCEPT !.fault = "ml"], 1))
  /\ UNCHANGED <<dbVars, lgb_available, priceVars, fdVars>>

(***************************************************************************)
(* The files etl.py reads, and the two specifications of the pipeline      *)
(***************************************************************************)

\* last history date of the files tried
MaxDate == 3

\* a King night at 40% for 100.00 or at 90% for 150.00; an overbooked Queen
\* night (12 of 10 rooms) for 80.00
ResRow(d, rt, kind) ==
  CASE kind = "low"  -> CsvRow(d, rt, 4, 100 * MU)
    [] kind = "high" -> CsvRow(d, rt, 9, 150 * MU)
    [] kind = "full" -> CsvRow(d, rt, 12, 80 * MU)

\* a file reservations_30d.csv: its rows in date order
ResCsv(king, queen) ==
  SortPairs({<<2 * d, ResRow(d, "King", king[d])>> : d \in {x \in DOMAIN king : king[x] # "none"}}
            \cup
            {<<2 * d + 1, ResRow(d, "Queen", queen[d])>> : d \in {x \in DOMAIN queen : queen[x] # "none"}})

\* every file over the dates 1..MaxDate (the empty one stands for a missing file too)
ResCsvs ==
  {ResCsv(k, q) : k \in [1..MaxDate -> {"none", "low", "high"}],
                  q \in [1..MaxDate -> {"none", "full"}]}

\* the few files of the racing requests: no history, one King night (on two
\* lines of the file, the later one corrects the earlier), and a later file
\* that rewrites that night and adds a day and a room type
RaceResCsvs ==
  { <<>>,
    <<ResRow(1, "King", "high"), ResRow(1, "King", "low")>>,
    <<ResRow(1, "King", "high"), ResRow(2, "King", "low"), ResRow(2, "Queen", "full")>> }

RaceCompCsvs == CompCsvs(3) \ {<<CompRow(3, "c1", "King", 120 * MU)>>}

PipeInit ==
  /\ reservations = EmptyTable
  /\ competitor_rates = EmptyTable
  /\ forecasts = EmptyTable
  /\ writer = <<>>
  /\ lgb_available \in BOOLEAN
  /\ req = [r \in Requests |-> IdleRequest]
  /\ PriceIdle
  /\ FdIdle

\* one request, any file
Next ==
  \/ EtlOk("r1", ResCsvs, CompCsvs(MaxDate + 1))
  \/ EtlFail("r1")
  \/ MlReadRes("r1")
  \/ MlReadComp("r1")
  \/ MlUpsert("r1")
  \/ MlCommit("r1")
  \/ MlFail("r1")

Spec == PipeInit /\ [][Next]_vars

\* two requests, in any interleaving
RaceNext ==
  \E r \in Requests :
    \/ EtlOk(r, RaceResCsvs, RaceCompCsvs)
    \/ EtlFail(r)
    \/ MlReadRes(r)
    \/ MlReadComp(r)
    \/ MlUpsert(r)
    \/ MlCommit(r)
    \/ MlFail(r)

SpecRace == PipeInit /\ [][RaceNext]_vars

(***************************************************************************)
(* Properties of choose_price                                              *)
(***************************************************************************)

MathMax(a, b) == IF a >= b THEN a ELSE b

InUnit(p) == ~IsNaN(p) /\ 0 <= p /\ p <= SC

\* the price table of the Price Selector, in 1/100 half-cents
TableRow(b, p, comp) ==
  CASE p < Pct(50)                  -> MathMax(b * 90, comp * 95)
    [] Pct(50) <= p /\ p < Pct(70)  -> MathMax(b * 100, comp * 100)
    [] Pct(70) <= p /\ p < Pct(85)  -> MathMax(b * 108, comp * 105)
    [] Pct(85) <= p                 -> MathMax(b * 115, comp * 110)

\* C1: for baseline > 0, p in [0,1] and any competitor median c (possibly
\* absent), the returned price is the table row of p's tier, rounded to 2
\* decimals, with comp = c when c is present and > 0 and comp = baseline otherwise.
C1_TierTable ==
  (px.called /\ ~IsNaN(px.baseline) /\ px.baseline > 0 /\ InUnit(px.proj_occ)) =>
    LET comp == IF px.comp_median # None /\ px.comp_median > 0
                THEN px.comp_median ELSE px.baseline
    IN  px.price = Round2(TableRow(px.baseline, px.proj_occ, comp))

\* choose_price(100.0, 0.30, 120.0) was called and returned 114.0
C1_Witness ==
  /\ px.called /\ px.baseline = 100 * MU /\ px.proj_occ = Pct(30)
  /\ px.comp_median = 120 * MU /\ px.price = 114 * MU

BadBaseline(b) == IsNaN(b) \/ b <= 0

\* C2: of two successive calls with the same occupancy and competitor
\* median, one with baseline 100.0 and one with a baseline that is undefined
\* or <= 0, both return exactly the same price.
C2_BadBaselineAs100 ==
  [][(/\ px.called /\ px'.called
      /\ px.baseline = 100 * MU /\ BadBaseline(px'.baseline)
      /\ px'.proj_occ = px.proj_occ /\ px'.comp_median = px.comp_median)
     => px'.price = px.price]_vars

\* a call with baseline -25.00, no competitor median and occupancy 0.85
\* returned 115.00, the price of baseline 100.0
C2_Witness ==
  /\ px.called /\ px.baseline = 0 - 5000 /\ px.proj_occ = Pct(85)
  /\ px.comp_median = None /\ px.price = 115 * MU

\* C3: of two successive calls with the same baseline and competitor median
\* and occupancies p1 <= p2 in [0,1], the first returns at most the price of
\* the second.
C3_MonotoneInOccupancy ==
  [][(/\ px.called /\ px'.called
      /\ px'.baseline = px.baseline /\ px'.comp_median = px.comp_median
      /\ InUnit(px.proj_occ) /\ InUnit(px'.proj_occ)
      /\ px.proj_occ <= px'.proj_occ)
     => px.price <= px'.price]_vars

\* a call just above the 0.70 edge with a dominating competitor median
\* (200.00 x 1.05 = 210.00, up from 200.00 just below the edge)
C3_Witness ==
  /\ px.called /\ px.baseline = 100 * MU /\ px.comp_median = 200 * MU
  /\ px.proj_occ = Pct(70) /\ px.price = 210 * MU

(***************************************************************************)
(* Properties of forecast_demand                                           *)
(***************************************************************************)

\* number of rows of the frame that have the room type of row i
SamplesOf(df, i) == Cardinality({j \in 1..Len(df) : df[j].room_type = df[i].room_type})

FdFellBack == fd.called /\ ~fd.lgb_ok

\* C9: when the regression step fails, forecast_demand returns one value per
\* row, and the value of every row of a room type with at least 2 samples is
\* defined and within [0,1].
C9_FallbackDefinedFrom2 ==
  FdFellBack =>
    /\ Len(fd.pred) = Len(fd.train_df)
    /\ \A i \in 1..Len(fd.train_df) :
         SamplesOf(fd.train_df, i) >= 2 =>
           /\ ~IsNaN(fd.pred[i])
           /\ 0 <= fd.pred[i] /\ fd.pred[i] <= SC

\* the fallback ran on a frame holding 8 King rows: the first row got its
\* value by back-fill and the last one from a full window of 7
C9_Witness ==
  /\ FdFellBack
  /\ Len(fd.train_df) = 8
  /\ \A i \in 1..8 : fd.train_df[i].room_type = "King"
  /\ fd.train_df[1].target = Pct(40) /\ fd.train_df[2].target = Pct(90)
  /\ fd.pred[1] = Pct(65)
  /\ fd.train_df[8].target = Pct(90) /\ fd.pred[8] > Pct(40)

\* C10: on the fallback path every row gets a defined value, rows of a room
\* type with exactly one sample included.
C10_FallbackDefinedFrom1 ==
  FdFellBack =>
    \A i \in 1..Len(fd.train_df) :
      SamplesOf(fd.train_df, i) >= 1 => ~IsNaN(fd.pred[i])

(***************************************************************************)
(* Properties of a pipeline run                                            *)
(***************************************************************************)

\* the run of request r has computed its batch
Emitted(r) ==
  \/ req[r].pc = "write"
  \/ req[r].pc = "done" /\ Len(req[r].fut) > 0

HistDates(r) == {req[r].res[i].stay_date : i \in 1..Len(req[r].res)}

HistRoomTypes(r) == {req[r].res[i].room_type : i \in 1..Len(req[r].res)}

\* C4: for a non-empty history, the batch of a run holds exactly one record
\* for each of the 14 dates after the latest stay_date and each room type of
\* the history: 14 x (number of room types) records, no key twice, no record
\* outside that window.
C4_HorizonCoverage ==
  \A r \in Requests :
    (Emitted(r) /\ Len(req[r].res) > 0) =>
      LET fut   == req[r].fut
          last  == CHOOSE d \in HistDates(r) : \A e \in HistDates(r) : e <= d
          dates == (last + 1)..(last + 14)
          keys  == {FcKey(fut[n]) : n \in 1..Len(fut)}
      IN  /\ Len(fut) = 14 * Cardinality(HistRoomTypes(r))
          /\ Cardinality(keys) = Len(fut)
          /\ keys = dates \X HistRoomTypes(r)

\* a completed run over a history whose two room types end on different
\* dates (Queen on day 1, King on day 3): 28 records from day 4 on
C4_Witness ==
  /\ req["r1"].pc = "done" /\ req["r1"].ml_exit = 0
  /\ HistRoomTypes("r1") = {"King", "Queen"}
  /\ \A i \in 1..Len(req["r1"].res) :
       req["r1"].res[i].room_type = "Queen" => req["r1"].res[i].stay_date = 1
  /\ \E i \in 1..Len(req["r1"].res) :
       req["r1"].res[i].room_type = "King" /\ req["r1"].res[i].stay_date = 3
  /\ Len(req["r1"].fut) = 28
  /\ req["r1"].fut[1].stay_date = 4

Completed(r) == req[r].pc = "done" /\ req[r].etl_exit = 0 /\ req[r].ml_exit = 0

SameInputs(r, o) == req[r].res = req[o].res /\ req[r].comp = req[o].comp

\* C5: when a run that started after another run had completed on identical
\* reservation and competitor inputs commits its batch, the forecast store
\* stays exactly as the first run left it.
C5_SecondRunIdempotent ==
  [][\A r \in Requests, o \in Requests :
       (/\ r # o
        /\ o \in req[r].after /\ Completed(o) /\ SameInputs(r, o)
        /\ req[r].pc = "write" /\ req'[r].pc = "done" /\ req'[r].ml_exit = 0)
       => forecasts' = forecasts]_vars

\* both runs completed one after the other on the same non-empty inputs and
\* the store holds one copy of each of the 28 rows of the batch
C5_Witness ==
  /\ Completed("r1") /\ Completed("r2")
  /\ "r1" \in req["r2"].after
  /\ SameInputs("r1", "r2")
  /\ Len(req["r2"].fut) = 28
  /\ DOMAIN forecasts = {req["r1"].fut[n] : n \in 1..28}
  /\ \A x \in DOMAIN forecasts : forecasts[x] = 1

FcKeys == {FcKey(x) : x \in DOMAIN forecasts}

RowsAt(k) == {x \in DOMAIN forecasts : FcKey(x) = k}

AllDone == \A r \in Requests : req[r].pc = "done"

\* C6: whatever the interleaving of two racing runs, the store holds at most
\* one row per (stay_date, room_type); once both are done each stored row is
\* the row of the batch of the run that wrote its key last, and for identical
\* inputs the store is the store of a single run.
C6_RaceConverges ==
  /\ \A k \in FcKeys : SumCopies(forecasts, RowsAt(k)) = 1
  /\ AllDone =>
       /\ FcKeys = DOMAIN writer
       /\ \A k \in FcKeys :
            \E n \in 1..Len(req[writer[k]].fut) :
              /\ FcKey(req[writer[k]].fut[n]) = k
              /\ RowsAt(k) = {req[writer[k]].fut[n]}
       /\ \A r \in Requests, o \in Requests :
            (r # o /\ Completed(r) /\ Completed(o) /\ SameInputs(r, o)) =>
              DOMAIN forecasts = {req[r].fut[n] : n \in 1..Len(req[r].fut)}

\* two overlapping runs on different inputs, both completed: r2 read the
\* later history and r1, which committed last, overwrote part of r2's rows
C6_Witness ==
  /\ Completed("r1") /\ Completed("r2")
  /\ "r1" \notin req["r2"].after /\ "r2" \notin req["r1"].after
  /\ Len(req["r1"].fut) = 14 /\ Len(req["r2"].fut) = 28
  /\ writer[<<3, "King">>] = "r1"
  /\ writer[<<16, "King">>] = "r2"
  /\ req["r1"].fut[2] \in DOMAIN forecasts
  /\ req["r2"].fut[1] \notin DOMAIN forecasts

BatchRows(r) == {req[r].fut[n] : n \in 1..Len(req[r].fut)}

\* C7: the batch of a run becomes visible in one step: whenever the forecast
\* store changes, the whole batch of one run is in it and nothing else has
\* changed; a run that fails part-way changes nothing.
C7_AllOrNothing ==
  [][forecasts' # forecasts =>
       \E r \in Requests :
         /\ req[r].pc = "write" /\ req'[r].pc = "done" /\ req'[r].ml_exit = 0
         /\ BatchRows(r) \subseteq DOMAIN forecasts'
         /\ \A x \in DOMAIN forecasts' :
              x \notin BatchRows(r) => Copies(forecasts, x) = forecasts'[x]
         /\ \A x \in DOMAIN forecasts :
              x \notin DOMAIN forecasts' => \E y \in BatchRows(r) : FcKey(y) = FcKey(x)]_vars

\* a run failed after 5 of its 14 statements and the store shows none of its rows
C7_Witness ==
  /\ req["r1"].pc = "done" /\ req["r1"].fault = "ml"
  /\ req["r1"].i = 5 /\ Len(req["r1"].fut) = 14
  /\ req["r2"].pc = "idle"
  /\ forecasts = EmptyTable

\* the run of request r read an empty history and met no fault
RanOnEmptyHistory(r) ==
  /\ req[r].pc = "done" /\ req[r].etl_exit = 0 /\ req[r].fault = "none"
  /\ Len(req[r].res) = 0

RowsOf(df, rt) == {i \in 1..Len(df) : df[i].room_type = rt}

\* those of the rows I of df that are among the w latest by stay_date
Recent(df, I, w) ==
  {i \in I : Cardinality({j \in I : df[j].stay_date > df[i].stay_date}) < w}

\* k-th smallest adr among the rows I of df
KthAdr(df, I, k) ==
  CHOOSE v \in {df[i].adr : i \in I} :
    /\ Cardinality({i \in I : df[i].adr < v}) < k
    /\ k <= Cardinality({i \in I : df[i].adr <= v})

\* reference median of the adr of the rows I of df (I not empty)
RefMedianAdr(df, I) ==
  LET n == Cardinality(I)
  IN  IF n % 2 = 1 THEN KthAdr(df, I, (n + 1) \div 2)
      ELSE (KthAdr(df, I, n \div 2) + KthAdr(df, I, n \div 2 + 1)) \div 2

\* entries of the result of compute_baseline that belong to room type rt
EntriesOf(baselines, rt) ==
  {n \in 1..Len(baselines) : baselines[n].label[1] = rt}

\* C13: for every room type with at least 3 history samples, compute_baseline
\* returns for that room type the median of its 14 most recent adr values by
\* stay_date (all of them when it has fewer than 14), as a reference median
\* over the same rows gives it.
C13_TrailingMedian ==
  (fr.loaded /\ fr.bl_called) =>
    \A rt \in RoomTypes :
      Cardinality(RowsOf(fr.res, rt)) >= 3 =>
        /\ EntriesOf(fr.baselines, rt) # {}
        /\ \A n \in EntriesOf(fr.baselines, rt) :
             fr.baselines[n].value =
               RefMedianAdr(fr.res, Recent(fr.res, RowsOf(fr.res, rt), 14))

\* 16 King nights with adr rising from 101.00 to 116.00: the baseline is the
\* median of the last 14 (103.00 .. 116.00), 109.50
C13_Witness ==
  /\ fr.loaded /\ fr.bl_called
  /\ Cardinality(RowsOf(fr.res, "King")) = 16
  /\ fr.res[1].room_type = "King" /\ fr.res[1].adr = 101 * MU
  /\ \E n \in EntriesOf(fr.baselines, "King") : fr.baselines[n].value = 21900

RECURSIVE SumOcc(_, _)
SumOcc(df, I) ==
  IF I = {} THEN 0
  ELSE LET i == CHOOSE j \in I : TRUE
       IN  df[i].occupancy + SumOcc(df, I \ {i})

\* C17: in the output of build_features, whatever the order of the input
\* rows, the row of room type r at date d has as lag_occ_1 the occupancy of
\* r's latest date before d (undefined on r's first date) and as roll_occ_7
\* the mean of the occupancy of r's up to 7 latest dates <= d (undefined when
\* fewer than 2 exist); there is one output row per input row.
C17_LagAndRolling ==
  (fr.loaded /\ fr.bf_called) =>
    /\ Len(fr.feat) = Len(fr.res)
    /\ \A i \in 1..Len(fr.res) :
         \E n \in 1..Len(fr.feat) :
           /\ fr.feat[n].room_type = fr.res[i].room_type
           /\ fr.feat[n].stay_date = fr.res[i].stay_date
    /\ \A n \in 1..Len(fr.feat) :
         LET x     == fr.feat[n]
             same  == RowsOf(fr.res, x.room_type)
             prev  == {i \in same : fr.res[i].stay_date < x.stay_date}
             upto  == {i \in same : fr.res[i].stay_date <= x.stay_date}
             last7 == Recent(fr.res, upto, 7)
         IN  /\ IF prev = {} THEN IsNaN(x.lag_occ_1)
                ELSE \E i \in Recent(fr.res, prev, 1) :
                       x.lag_occ_1 = fr.res[i].occupancy
             /\ IF Cardinality(upto) < 2 THEN IsNaN(x.roll_occ_7)
                ELSE x.roll_occ_7 = SumOcc(fr.res, last7) \div Cardinality(last7)

\* build_features was given, last date first, at least 8 King nights swinging
\* between 40% and 90% and a Queen night between them: the King row of day 8
\* has lag 40% (day 7) and rolling mean 48/7 x 10% (days 2..8)
C17_Witness ==
  /\ fr.loaded /\ fr.bf_called /\ fr.order = "reversed"
  /\ RowsOf(fr.res, "Queen") # {}
  /\ \E n \in 1..Len(fr.feat) :
       /\ fr.feat[n].room_type = "King" /\ fr.feat[n].stay_date = 8
       /\ fr.feat[n].lag_occ_1 = Pct(40)
       /\ fr.feat[n].roll_occ_7 = 28800
       /\ fr.feat[n].occupancy = Pct(90)

(***************************************************************************)
(* Properties of the batch computed by main                                *)
(***************************************************************************)

\* main has computed its batch over the non-empty history fr.res
BatchComputed == fr.loaded /\ fr.run_called /\ Len(fr.res) > 0

FrDates == {fr.res[i].stay_date : i \in 1..Len(fr.res)}

FrRoomTypes == {fr.res[i].room_type : i \in 1..Len(fr.res)}

\* C11: every record of the batch of a run over a non-empty history, on
\* either forecaster path, has a defined demand_forecast within [0,1] (in
\* 1/10000) and a recommended_adr >= 0.
C11_RecordsInRange ==
  BatchComputed =>
    \A n \in 1..Len(fr.fut) :
      LET x == fr.fut[n]
      IN  /\ ~IsNaN(x.demand_forecast)
          /\ 0 <= x.demand_forecast /\ x.demand_forecast <= 10000
          /\ ~IsNaN(x.recommended_adr) /\ x.recommended_adr >= 0

\* rows of feat_df of room type rt dated d or earlier
RowsUpTo(feat_df, rt, d) ==
  {i \in 1..Len(feat_df) : feat_df[i].room_type = rt /\ feat_df[i].stay_date <= d}

\* those of the rows I of feat_df that carry the greatest stay_date
Latest(feat_df, I) ==
  LET dates == {feat_df[i].stay_date : i \in I}
      top   == CHOOSE d \in dates : \A e \in dates : e <= d
  IN  {i \in I : feat_df[i].stay_date = top}

\* C12: for each (future date, room type) pair of the horizon, the projected
\* occupancy given to choose_price is the pred of the feature row of that room
\* type with the greatest stay_date <= the future date, and the baseline
\* given is the baseline of that row.
C12_AsOfLookup ==
  BatchComputed =>
    /\ Len(fr.calls) = Len(fr.fut)
    /\ \A n \in 1..Len(fr.calls) :
         LET a == fr.calls[n]
             I == RowsUpTo(fr.feat_df, a.room_type, a.stay_date)
         IN  /\ FcKey(a) = FcKey(fr.fut[n])
             /\ I # {} =>
                  \A i \in Latest(fr.feat_df, I) :
                    a.proj_occ = fr.feat_df[i].pred /\ a.baseline = fr.feat_df[i].baseline

\* a batch on the fallback path over King nights at 40%, 90%, 40%: the rows
\* of feat_df carry different pred (0.65 on day 1) and the call for day 4 got
\* the pred of the row of day 3, 0.5667
C12_Witness ==
  /\ BatchComputed /\ ~fr.lgb_ok
  /\ fr.feat_df[1].room_type = "King" /\ fr.feat_df[1].stay_date = 1
  /\ fr.feat_df[1].pred = Pct(65)
  /\ fr.calls[1].room_type = "King" /\ fr.calls[1].stay_date = 4
  /\ fr.calls[1].asof = 3
  /\ fr.calls[1].proj_occ = 23800

\* C14: the baseline given to choose_price is defined for every room type of
\* the history, and for a room type with fewer than 3 samples it is that room
\* type's overall median adr.
C14_FallbackToOverallMedian ==
  BatchComputed =>
    \A n \in 1..Len(fr.calls) :
      LET a    == fr.calls[n]
          rows == RowsOf(fr.res, a.room_type)
      IN  /\ ~IsNaN(a.baseline)
          /\ Cardinality(rows) < 3 => a.baseline = RefMedianAdr(fr.res, rows)

\* room types that competitor rates name on a date after the history
RoomTypesAhead ==
  {c.room_type : c \in {x \in fr.comp : \A d \in FrDates : d < x.stay_date}}

\* C15: a room type without a history row that is present during the horizon
\* (competitor rates name it there) gets 14 records in the batch.
C15_AbsentRoomTypeGetsRows ==
  BatchComputed =>
    \A rt \in RoomTypesAhead \ FrRoomTypes :
      Cardinality({n \in 1..Len(fr.fut) : fr.fut[n].room_type = rt}) = 14

\* k-th smallest rate among the competitor rows G
KthRate(G, k) ==
  CHOOSE v \in {c.rate : c \in G} :
    /\ Cardinality({c \in G : c.rate < v}) < k
    /\ k <= Cardinality({c \in G : c.rate <= v})

\* reference median of the rates of the competitor rows G (G not empty)
RefMedianRate(G) ==
  LET n == Cardinality(G)
  IN  IF n % 2 = 1 THEN KthRate(G, (n + 1) \div 2)
      ELSE (KthRate(G, n \div 2) + KthRate(G, n \div 2 + 1)) \div 2

\* C16: in every record of a batch, competitor_rate, which is also the
\* competitor median given to choose_price, is the median of all competitor
\* rates read for exactly the record's (stay_date, room_type), and null when
\* there is none; a batch computed without any competitor rate covers the
\* full horizon, competitor_rate null in every record.
C16_CompetitorMedian ==
  BatchComputed =>
    /\ \A n \in 1..Len(fr.fut) :
         LET x   == fr.fut[n]
             grp == {c \in fr.comp : c.stay_date = x.stay_date /\ c.room_type = x.room_type}
         IN  /\ x.competitor_rate = fr.calls[n].comp_median
             /\ x.competitor_rate = IF grp = {} THEN None ELSE RefMedianRate(grp)
    /\ fr.comp = {} =>
         /\ Len(fr.fut) = 14 * Cardinality(FrRoomTypes)
         /\ \A n \in 1..Len(fr.fut) : fr.fut[n].competitor_rate = None

\* a batch computed with two King rates for the first horizon day (120.00
\* and 95.00), a King rate for day 1 and a Queen rate for the first horizon
\* day: the first King record carries 107.50, the first Queen record 250.00,
\* the King record of the next day null
C16_Witness ==
  /\ BatchComputed
  /\ Cardinality(fr.comp) = 4
  /\ Len(fr.fut) = 28
  /\ fr.fut[1].room_type = "King" /\ fr.fut[1].competitor_rate = 21500
  /\ fr.fut[2].room_type = "Queen" /\ fr.fut[2].stay_date = fr.fut[1].stay_date
  /\ fr.fut[2].competitor_rate = 250 * MU
  /\ fr.fut[3].stay_date = fr.fut[1].stay_date + 1 /\ fr.fut[3].competitor_rate = None

\* latest stay_date of room type rt in the history
LastDateOf(rt) ==
  CHOOSE d \in {fr.res[i].stay_date : i \in RowsOf(fr.res, rt)} :
    \A i \in RowsOf(fr.res, rt) : fr.res[i].stay_date <= d

\* C20: within one run, for every room type of the history the as-of lookup
\* finds a row on each of the 14 dates, always the room type's latest-dated
\* history row (the synthesized-default branch is never taken), so that the
\* room type's demand_forecast and baseline are the same on all 14 dates and
\* its recommended_adr differs between two dates only with the competitor median.
C20_SameRowEveryDate ==
  BatchComputed =>
    \A rt \in FrRoomTypes :
      LET idx == {n \in 1..Len(fr.calls) : fr.calls[n].room_type = rt}
      IN  /\ Cardinality(idx) = 14
          /\ {fr.calls[n].asof : n \in idx} = {LastDateOf(rt)}
          /\ Cardinality({<<fr.calls[n].proj_occ, fr.calls[n].baseline,
                            fr.fut[n].demand_forecast>> : n \in idx}) = 1
          /\ Cardinality({<<fr.calls[n].comp_median, fr.fut[n].recommended_adr>> : n \in idx})
               = Cardinality({fr.calls[n].comp_median : n \in idx})

\* a batch over 5 King nights and one Queen night (day 2), with a King rate
\* of 120.00 for day 6 only: every Queen lookup reaches back to day 2, and the
\* King price of day 6 differs from the one of day 7 at the same demand_forecast
C20_Witness ==
  /\ BatchComputed /\ Len(fr.calls) = 28
  /\ fr.calls[1].room_type = "King" /\ fr.calls[1].stay_date = 6 /\ fr.calls[1].asof = 5
  /\ fr.calls[28].room_type = "Queen" /\ fr.calls[28].stay_date = 19
  /\ fr.calls[28].asof = 2
  /\ fr.calls[1].comp_median = 120 * MU
  /\ fr.calls[3].comp_median = None
  /\ fr.fut[1].demand_forecast = fr.fut[3].demand_forecast
  /\ fr.fut[1].recommended_adr # fr.fut[3].recommended_adr

(***************************************************************************)
(* Properties of the stores under repeated runs                            *)
(***************************************************************************)

\* the keys of the horizon of the run of request r: the 14 days after the
\* latest stay_date it read, for each room type it read
HorizonKeys(r) ==
  IF Len(req[r].res) = 0 THEN {}
  ELSE LET last == CHOOSE d \in HistDates(r) : \A e \in HistDates(r) : e <= d
       IN  ((last + 1)..(last + 14)) \X HistRoomTypes(r)

\* C18: no step of a run removes a key from the forecast store, and the
\* commit of a run leaves every stored row whose key is outside the run's
\* horizon x room types exactly as it was.
C18_NeverDeleted ==
  [][/\ FcKeys \subseteq {FcKey(x) : x \in DOMAIN forecasts'}
     /\ \A r \in Requests :
          (req[r].pc = "write" /\ req'[r].pc = "done" /\ req'[r].ml_exit = 0) =>
            \A x \in DOMAIN forecasts :
              FcKey(x) \notin HorizonKeys(r) =>
                x \in DOMAIN forecasts' /\ forecasts'[x] = forecasts[x]]_vars

\* r2 started after r1 had completed, read a history one day longer and
\* committed: the King row of day 2, outside r2's horizon, is still r1's,
\* while day 3 carries r2's row
C18_Witness ==
  /\ Completed("r1") /\ Completed("r2")
  /\ "r1" \in req["r2"].after
  /\ HorizonKeys("r1") = (2..15) \X {"King"}
  /\ HorizonKeys("r2") = (3..16) \X {"King", "Queen"}
  /\ writer[<<2, "King">>] = "r1" /\ writer[<<3, "King">>] = "r2"
  /\ req["r1"].fut[1] \in DOMAIN forecasts
  /\ req["r1"].fut[1].stay_date = 2

\* rows of the reservations table t under key k
ResRowsAt(t, k) == {x \in DOMAIN t : ResKey(x) = k}

\* the last line of the file f that has key k
LastLine(f, k) ==
  f[CHOOSE n \in 1..Len(f) :
      /\ ResKey(f[n]) = k
      /\ \A m \in (n + 1)..Len(f) : ResKey(f[m]) # k]

\* C19: an ETL ingest leaves, for each (date, room_type) of its file, exactly
\* one record, which carries the values of the last line of the file with that
\* key, and leaves every other record as it was; no other step changes the
\* reservations store. So the store holds at most one record per key, the
\* most recently ingested one.
C19_LastIngestWins ==
  [][IF \E r \in Requests : req[r].pc = "idle" /\ req'[r].pc = "ml_res"
     THEN \A r \in Requests :
            (req[r].pc = "idle" /\ req'[r].pc = "ml_res") =>
              LET f    == req'[r].res_csv
                  keys == {ResKey(f[n]) : n \in 1..Len(f)}
              IN  /\ \A k \in keys :
                       /\ ResRowsAt(reservations', k) = {LastLine(f, k)}
                       /\ reservations'[LastLine(f, k)] = 1
                  /\ \A x \in DOMAIN reservations :
                       ResKey(x) \notin keys =>
                         x \in DOMAIN reservations' /\ reservations'[x] = reservations[x]
                  /\ \A x \in DOMAIN reservations' :
                       ResKey(x) \in keys \/ x \in DOMAIN reservations
     ELSE reservations' = reservations]_vars

\* r1 ingested the three-line file and read it back (King day 1 at 150.00),
\* then r2 ingested the file that gives King day 1 twice: the store holds the
\* last line of r2's file for that key (100.00) and r1's other two records
C19_Witness ==
  /\ Len(req["r1"].res_csv) = 3 /\ Len(req["r2"].res_csv) = 2
  /\ Len(req["r1"].res) = 3 /\ req["r1"].res[1].adr = 150 * MU
  /\ req["r2"].res_csv[1] = ResRow(1, "King", "high")
  /\ DOMAIN reservations =
       {ResRow(1, "King", "low"), ResRow(2, "King", "low"), ResRow(2, "Queen", "full")}
  /\ \A x \in DOMAIN reservations : reservations[x] = 1

(***************************************************************************)
(* choose_price on an undefined occupancy, and the order of the two        *)
(* scripts of POST /etl/run                                                *)
(***************************************************************************)

\* C21: when the projected occupancy is undefined (NaN), choose_price
\* returns a defined price, the one of the highest tier:
\* max(baseline * 1.15, comp * 1.10) rounded to 2 decimals, with baseline
\* replaced by 100.0 when undefined or <= 0 and comp = baseline when the
\* competitor median is absent or <= 0.
C21_UndefinedOccupancyTopTier ==
  (px.called /\ IsNaN(px.proj_occ)) =>
    LET b    == IF BadBaseline(px.baseline) THEN 100 * MU ELSE px.baseline
        comp == IF px.comp_median # None /\ px.comp_median > 0 THEN px.comp_median ELSE b
    IN  /\ ~IsNaN(px.price)
        /\ px.price = Round2(MathMax(b * 115, comp * 110))

\* choose_price(150.0, nan, 200.0) returned 220.00 = 200.00 x 1.10
C21_Witness ==
  /\ px.called /\ IsNaN(px.proj_occ)
  /\ px.baseline = 150 * MU /\ px.comp_median = 200 * MU
  /\ px.price = 220 * MU

\* model.py is running, or has exited, for request r
MlStarted(r) ==
  \/ req[r].pc \in {"ml_res", "ml_comp", "write"}
  \/ req[r].ml_exit # NotExited

\* C22: model.py is started only after etl.py has exited with status 0; when
\* etl.py exits non-zero model.py is never started and the response is a 500
\* error; the response "ETL+ML completed" is given only when both scripts
\* exited with status 0.
C22_MlOnlyAfterEtlOk ==
  \A r \in Requests :
    /\ MlStarted(r) => req[r].etl_exit = 0
    /\ req[r].etl_exit \notin {0, NotExited} =>
         /\ ~MlStarted(r)
         /\ req[r].pc = "done" /\ req[r].response = "500"
         /\ req[r].res = <<>> /\ req[r].fut = <<>>
    /\ req[r].response = "ETL+ML completed" =>
         req[r].etl_exit = 0 /\ req[r].ml_exit = 0

\* etl.py exited with status 1: the request was answered 500, model.py never
\* ran and the stores are as they were
C22_Witness ==
  /\ req["r1"].pc = "done" /\ req["r1"].etl_exit = 1
  /\ req["r1"].ml_exit = NotExited /\ req["r1"].response = "500"
  /\ reservations = EmptyTable /\ forecasts = EmptyTable

====
